---------------------------- MODULE Spec2Model ----------------------------
(***************************************************************************)
(* A model of pdf_ocr.py: the recursive batch driver (main,                *)
(* process_directory), the workspace lifecycle (clear_workspace and the    *)
(* results purge), the external pipeline call (run_ocr_pipeline) and the   *)
(* JSONL-to-Markdown conversion (convert_jsonl_to_markdown).               *)
(*                                                                         *)
(* Strings are sequences of one-character strings, so that lower(),        *)
(* endswith(), glob patterns, basename() and splitext() are computed and   *)
(* not assumed.  Paths below BASE_SOURCE_DIR and BASE_DEST_DIR are         *)
(* sequences of directory names (the empty sequence is the base itself).   *)
(***************************************************************************)
EXTENDS Integers, Sequences, FiniteSets, TLC

VARIABLES
    srcFiles,     \* source tree: directory -> names of the files directly in it
    stack,        \* os.walk: directories still to be yielded, next one first
    pc,           \* position of the single thread of control
    cur,          \* the directory process_directory is working on
    pdf_files,    \* process_directory's local list of globbed entries
    wsExists,     \* WORKSPACE_DIR exists
    resExists,    \* RESULTS_DIR exists
    results,      \* RESULTS_DIR: file name -> sequence of lines
    jsonl_files,  \* convert: the *.jsonl files, in the order glob returned them
    todo,         \* convert: the lines not yet read, in reading order
    destDirs,     \* directories existing at or below BASE_DEST_DIR
    destFiles,    \* destination directory -> (file name -> content)
    log,          \* what was printed, in order
    steps,        \* history: directory -> the steps taken for it, in order
    conv          \* history: the Markdown writes, in order

vars == <<srcFiles, stack, pc, cur, pdf_files, wsExists, resExists, results,
          jsonl_files, todo, destDirs, destFiles, log, steps, conv>>

-----------------------------------------------------------------------------
(* Bounds *)

\* deepest level of the chain of nested source directories
MaxDepth == 2
\* lines in a results directory when the conversion is checked on its own
MaxLines == 3

-----------------------------------------------------------------------------
(* Strings *)

\* str.lower() on the characters that occur in the model
LowerChar(c) ==
    CASE c = "A" -> "a" [] c = "B" -> "b" [] c = "D" -> "d" [] c = "F" -> "f"
      [] c = "G" -> "g" [] c = "J" -> "j" [] c = "N" -> "n" [] c = "P" -> "p"
      [] OTHER -> c

Lower(s) == [i \in 1..Len(s) |-> LowerChar(s[i])]

\* str.endswith(suffix)
EndsWith(s, suf) ==
    /\ Len(s) >= Len(suf)
    /\ SubSeq(s, Len(s) - Len(suf) + 1, Len(s)) = suf

\* str.endswith(tuple of suffixes)
EndsWithAny(s, sufs) == \E suf \in sufs : EndsWith(s, suf)

\* position of the last occurrence of character c in s, 0 when there is none
RFind(s, c) ==
    IF \E i \in 1..Len(s) : s[i] = c
    THEN CHOOSE i \in 1..Len(s) : s[i] = c /\ \A j \in (i+1)..Len(s) : s[j] # c
    ELSE 0

\* os.path.basename: what follows the last "/"
Basename(p) == SubSeq(p, RFind(p, "/") + 1, Len(p))

\* os.path.splitext: the extension starts at the last dot of the last path
\* component, unless only dots precede that dot in the component
SplitextIndex(p) ==
    LET sep == RFind(p, "/")
        dot == RFind(p, ".")
    IN  IF dot > sep /\ \E i \in (sep+1)..(dot-1) : p[i] # "."
        THEN dot
        ELSE Len(p) + 1

SplitextRoot(p) == SubSeq(p, 1, SplitextIndex(p) - 1)

\* glob.glob(os.path.join(dir, "*" + suffix)) over the entries of one
\* directory: fnmatch is case-sensitive on POSIX, and a pattern that does not
\* start with a dot matches no entry that does
GlobStar(entries, suffix) ==
    { e \in entries : /\ EndsWith(e, suffix)
                       /\ e[1] # "." }

-----------------------------------------------------------------------------
(* JSON values, as json.loads returns them *)

JStr(s) == [t |-> "str", s |-> s]
JNull == [t |-> "null"]
JNum(n) == [t |-> "num", n |-> n]
JArr(a) == [t |-> "arr", a |-> a]
\* a dict: f maps each key present to its value
JObj(f) == [t |-> "obj", f |-> f]
NoKeys == [k \in {} |-> JNull]

\* the outcome of a Python expression that raised (AttributeError, TypeError)
Raised == [t |-> "raised"]

\* d.get(key, default); a value that is not a dict has no attribute get
DictGet(d, key, default) ==
    IF d.t # "obj" THEN Raised
    ELSE IF key \in DOMAIN d.f THEN d.f[key] ELSE default

-----------------------------------------------------------------------------
(* convert_jsonl_to_markdown, lines 66-78: one parsed line to one file *)

STR_unknown == <<"u", "n", "k", "n", "o", "w", "n">>
STR_md == <<".", "m", "d">>

\* lines 67-68, with the precedence swapped: id before metadata["Source-File"]
SourceFileIdFirst(doc) ==
    LET metadata == DictGet(doc, "metadata", JObj(NoKeys))
    IN  IF metadata.t # "obj" THEN Raised
        ELSE DictGet(doc, "id", DictGet(metadata, "Source-File", JStr(STR_unknown)))

\* lines 67-68: metadata = doc.get("metadata", {});
\* source_file = metadata.get("Source-File", doc.get("id", "unknown"))
SourceFile(doc) ==
    LET metadata == DictGet(doc, "metadata", JObj(NoKeys))
    IN  IF metadata.t # "obj" THEN Raised
        ELSE DictGet(metadata, "Source-File", DictGet(doc, "id", JStr(STR_unknown)))

\* lines 69-75: the file name inside output_dir and the content written to it;
\* basename and the string concatenation raise TypeError on a non-string
MarkdownOf(doc) ==
    LET source_file == SourceFile(doc)
    IN  IF source_file.t # "str" THEN Raised
        ELSE LET base_name == Basename(source_file.s)
                 name_without_ext == SplitextRoot(base_name)
                 ocr_text == DictGet(doc, "text", JStr(<<>>))
             IN  IF ocr_text.t # "str" THEN Raised
                 ELSE [t |-> "md",
                       name |-> name_without_ext \o STR_md,
                       content |-> <<"#", " ">> \o base_name \o <<"\n", "\n">>
                                       \o ocr_text.s]

-----------------------------------------------------------------------------
(* The source tree walked by main, and what the external pipeline may write *)

\* below BASE_SOURCE_DIR: a chain s, s/s, ... of nested directories, and z
SourceTree == { [i \in 1..k |-> "s"] : k \in 0..MaxDepth } \cup { <<"z">> }

Children(d) == { c \in SourceTree : Len(c) = Len(d) + 1 /\ SubSeq(c, 1, Len(d)) = d }

\* the directory itself and every directory above it, up to the base
Prefixes(d) == { SubSeq(d, 1, k) : k \in 0..Len(d) }

F_a_pdf == <<"a", ".", "p", "d", "f">>
F_B_PDF == <<"B", ".", "P", "D", "F">>
F_n_txt == <<"n", ".", "t", "x", "t">>
F_h_png == <<".", "h", ".", "p", "n", "g">>
F_g_jpeg == <<"g", ".", "j", "p", "e", "g">>

\* what one source directory may hold, besides its subdirectories
FileChoices ==
    { {F_n_txt}, {F_B_PDF, F_n_txt}, {F_a_pdf, F_B_PDF, F_h_png, F_g_jpeg} }

\* the names listed in a directory: its files and its subdirectories
Entries(d) == srcFiles[d] \cup { <<c[Len(c)]>> : c \in Children(d) }

\* line 131: file.lower().endswith((".pdf", ".png", ".jpg", ".jpeg"))
EXT_pdf == <<".", "p", "d", "f">>
EXT_png == <<".", "p", "n", "g">>
EXT_jpg == <<".", "j", "p", "g">>
EXT_jpeg == <<".", "j", "p", "e", "g">>
EXT_jsonl == <<".", "j", "s", "o", "n", "l">>
Extensions == {EXT_pdf, EXT_png, EXT_jpg, EXT_jpeg}

IsEligible(file) == EndsWithAny(Lower(file), Extensions)

\* lines 88-92: the four globs of process_directory, concatenated
GlobEligible(d) ==
    GlobStar(Entries(d), EXT_pdf) \cup GlobStar(Entries(d), EXT_png)
        \cup GlobStar(Entries(d), EXT_jpg) \cup GlobStar(Entries(d), EXT_jpeg)

\* A line of a results file: blank (strip() is empty), not JSON, or JSON with
\* the value json.loads returns.  origin is history: the pipeline run (the
\* directory) that wrote the line, or Stale for what an earlier run left.
Stale == <<"?">>
BlankLine(o) == [raw |-> "blank", val |-> JNull, origin |-> o]
BadLine(o) == [raw |-> "garbage", val |-> JNull, origin |-> o]
JsonLine(v, o) == [raw |-> "json", val |-> v, origin |-> o]

T_hi == <<"h", "i">>
T_yo == <<"y", "o">>
ID_doc1 == <<"d", "o", "c", "1">>
P_report_pdf == <<"/", "b", "/", "r", ".", "p", "d", "f">>
P_r_png == <<"r", ".", "p", "n", "g">>
P_hidden == <<"b", "/", ".", "h">>

R_id == JObj([id |-> JStr(ID_doc1), text |-> JStr(T_hi)])
R_sf_id == JObj([metadata |-> JObj("Source-File" :> JStr(P_report_pdf)),
                 id |-> JStr(ID_doc1), text |-> JStr(T_hi)])
R_sf == JObj([metadata |-> JObj("Source-File" :> JStr(P_r_png)), text |-> JStr(T_yo)])
R_meta_id == JObj([metadata |-> JObj(NoKeys), id |-> JStr(P_hidden)])
R_empty == JObj(NoKeys)
R_array == JArr(<<JNum(1)>>)
R_meta_null == JObj([metadata |-> JNull, id |-> JStr(ID_doc1)])
R_id_num == JObj([id |-> JNum(7), text |-> JStr(T_hi)])
R_text_null == JObj([id |-> JStr(ID_doc1), text |-> JNull])

JsonValues ==
    {R_id, R_sf_id, R_sf, R_meta_id, R_empty, R_array, R_meta_null, R_id_num,
     R_text_null}

O1 == <<"o", "1", ".", "j", "s", "o", "n", "l">>
O2 == <<"o", "2", ".", "j", "s", "o", "n", "l">>
O_txt == <<"o", ".", "t", "x", "t">>

EmptyDir == [n \in {} |-> <<>>]

\* what the pipeline may leave in RESULTS_DIR when run for directory d
PipelineOutputs(d) ==
    { O_txt :> <<BadLine(d)>>,
      O1 :> <<JsonLine(R_id, d)>>,
      (O1 :> <<BadLine(d), JsonLine(R_sf_id, d), BlankLine(d)>>)
          @@ (O2 :> <<JsonLine(R_sf, d)>>) @@ (O_txt :> <<BadLine(d)>>),
      O1 :> <<JsonLine(R_array, d), JsonLine(R_id, d)>> }

\* what a failed run may have written before it failed
PartialOutputs(d) == { EmptyDir, O1 :> <<JsonLine(R_id, d)>> }

-----------------------------------------------------------------------------
(* Helpers of the actions *)

\* the orders in which a directory listing may return the names in S
Orders(S) ==
    { q \in [1..Cardinality(S) -> S] : \A i, j \in 1..Cardinality(S) : q[i] = q[j] => i = j }

\* the lines of one file, each with the file and its line number
FileLines(res, f) == [i \in 1..Len(res[f]) |-> [file |-> f, idx |-> i, line |-> res[f][i]]]

\* lines 54-57: the files in the order given, each read from its first line
RECURSIVE ReadingOrder(_, _)
ReadingOrder(res, order) ==
    IF order = <<>> THEN <<>>
    ELSE FileLines(res, Head(order)) \o ReadingOrder(res, Tail(order))

\* os.makedirs(d, exist_ok=True): d and every missing directory above it
MakeDirs(dirs, d) == dirs \cup Prefixes(d)

\* lines 77-78 opening the file for append
WriteFileAppend(files, dir, name, content) ==
    [files EXCEPT ![dir] =
        IF name \in DOMAIN @ THEN (name :> (@[name] \o content)) @@ @
        ELSE (name :> content) @@ @]

\* lines 77-78: open(markdown_filename, "w") truncates, then the content is written
WriteFile(files, dir, name, content) ==
    [files EXCEPT ![dir] = (name :> content) @@ @]

Logged(ev, d) == log' = Append(log, [ev |-> ev, dir |-> d])
Step(d, name) == steps' = [steps EXCEPT ![d] = Append(@, name)]

-----------------------------------------------------------------------------
(* Initial states *)

StaleResults == O1 :> <<JsonLine(R_id, Stale)>>

\* The start of main: nothing walked yet, no destination tree, and a
\* workspace that is absent or left over from an earlier run.
Init ==
    /\ srcFiles \in [SourceTree -> FileChoices]
    /\ stack = << <<>> >>
    /\ pc = "walk"
    /\ cur = <<>>
    /\ pdf_files = {}
    /\ \/ wsExists = FALSE /\ resExists = FALSE /\ results = EmptyDir
       \/ wsExists = TRUE /\ resExists = TRUE /\ results = StaleResults
    /\ jsonl_files = <<>>
    /\ todo = <<>>
    /\ destDirs = {}
    /\ destFiles = [d \in SourceTree |-> EmptyDir]
    /\ log = <<>>
    /\ steps = [d \in SourceTree |-> <<>>]
    /\ conv = <<>>

-----------------------------------------------------------------------------
(* main, lines 129-134 *)

\* os.walk yields the next directory top-down; its subdirectories follow it
\* in the order the listing gave them
WalkOn(d) == \E order \in Orders(Children(d)) : stack' = order \o Tail(stack)

\* lines 133-134 without the print: the directory is passed over silently
main_skip_no_notice ==
    /\ pc = "walk" /\ stack # <<>>
    /\ LET d == Head(stack)
       IN  /\ ~ \E f \in srcFiles[d] : IsEligible(f)
           /\ WalkOn(d)
    /\ UNCHANGED <<srcFiles, pc, cur, pdf_files, wsExists, resExists, results,
                   jsonl_files, todo, destDirs, destFiles, log, steps, conv>>

\* line 134: no file of the directory passes the test of line 131
main_skip ==
    /\ pc = "walk" /\ stack # <<>>
    /\ LET d == Head(stack)
       IN  /\ ~ \E f \in srcFiles[d] : IsEligible(f)
           /\ WalkOn(d)
           /\ Logged("main_skip", d)
    /\ UNCHANGED <<srcFiles, pc, cur, pdf_files, wsExists, resExists, results,
                   jsonl_files, todo, destDirs, destFiles, steps, conv>>

\* line 132: some file passes the test and process_directory(root) is called
main_process ==
    /\ pc = "walk" /\ stack # <<>>
    /\ LET d == Head(stack)
       IN  /\ \E f \in srcFiles[d] : IsEligible(f)
           /\ WalkOn(d)
           /\ cur' = d
           /\ Step(d, "called")
    /\ pc' = "process_directory"
    /\ UNCHANGED <<srcFiles, pdf_files, wsExists, resExists, results,
                   jsonl_files, todo, destDirs, destFiles, log, conv>>

\* the walk is exhausted and main returns
main_done ==
    /\ pc = "walk" /\ stack = <<>>
    /\ pc' = "done"
    /\ UNCHANGED <<srcFiles, stack, cur, pdf_files, wsExists, resExists, results,
                   jsonl_files, todo, destDirs, destFiles, log, steps, conv>>

-----------------------------------------------------------------------------
(* process_directory, lines 88-105 *)

\* lines 88-96: the globs find nothing; the directory is skipped
process_directory_skip ==
    /\ pc = "process_directory"
    /\ GlobEligible(cur) = {}
    /\ pdf_files' = {}
    /\ Logged("no_files_skip", cur)
    /\ Step(cur, "discovered_none")
    /\ pc' = "walk"
    /\ UNCHANGED <<srcFiles, stack, cur, wsExists, resExists, results,
                   jsonl_files, todo, destDirs, destFiles, conv>>

\* lines 88-103 without the call of line 100: the pipeline is run next
process_directory_found_no_reset ==
    /\ pc = "process_directory"
    /\ GlobEligible(cur) # {}
    /\ pdf_files' = GlobEligible(cur)
    /\ Logged("processing", cur)
    /\ Step(cur, "discovered")
    /\ pc' = "run_ocr_pipeline"
    /\ UNCHANGED <<srcFiles, stack, cur, wsExists, resExists, results,
                   jsonl_files, todo, destDirs, destFiles, conv>>

\* lines 88-98: the globs find files
process_directory_found ==
    /\ pc = "process_directory"
    /\ GlobEligible(cur) # {}
    /\ pdf_files' = GlobEligible(cur)
    /\ Logged("processing", cur)
    /\ Step(cur, "discovered")
    /\ pc' = "clear_workspace"
    /\ UNCHANGED <<srcFiles, stack, cur, wsExists, resExists, results,
                   jsonl_files, todo, destDirs, destFiles, conv>>

\* lines 15-20 without line 19: no results directory is made
clear_workspace_no_results_dir ==
    /\ pc = "clear_workspace"
    /\ wsExists' = TRUE
    /\ resExists' = FALSE
    /\ results' = EmptyDir
    /\ Logged("cleared", cur)
    /\ Step(cur, "reset")
    /\ pc' = "run_ocr_pipeline"
    /\ UNCHANGED <<srcFiles, stack, cur, pdf_files, jsonl_files, todo, destDirs, destFiles, conv>>

\* lines 15-20 without the rmtree: what is in the workspace stays
clear_workspace_no_rmtree ==
    /\ pc = "clear_workspace"
    /\ wsExists' = TRUE
    /\ resExists' = TRUE
    /\ results' = results
    /\ Logged("cleared", cur)
    /\ Step(cur, "reset")
    /\ pc' = "run_ocr_pipeline"
    /\ UNCHANGED <<srcFiles, stack, cur, pdf_files, jsonl_files, todo, destDirs, destFiles, conv>>

\* lines 15-20: rmtree the workspace if it exists, then create it and an
\* empty results directory in it
clear_workspace ==
    /\ pc = "clear_workspace"
    /\ wsExists' = TRUE
    /\ resExists' = TRUE
    /\ results' = EmptyDir
    /\ Logged("cleared", cur)
    /\ Step(cur, "reset")
    /\ pc' = "run_ocr_pipeline"
    /\ UNCHANGED <<srcFiles, stack, cur, pdf_files, jsonl_files, todo, destDirs, destFiles, conv>>

\* lines 33-37 with the return of line 105 missing: the conversion follows
run_ocr_pipeline_fail_no_return ==
    /\ pc = "run_ocr_pipeline"
    /\ \E out \in PartialOutputs(cur) : results' = out @@ results
    /\ wsExists' = TRUE /\ resExists' = TRUE
    /\ Logged("pipeline_error", cur)
    /\ Step(cur, "failed")
    /\ pc' = "convert"
    /\ UNCHANGED <<srcFiles, stack, cur, pdf_files, jsonl_files, todo, destDirs, destFiles, conv>>

\* lines 33-37 and 103-105: the external process writes what it writes and
\* exits non-zero; process_directory returns
run_ocr_pipeline_fail ==
    /\ pc = "run_ocr_pipeline"
    /\ \E out \in PartialOutputs(cur) : results' = out @@ results
    /\ wsExists' = TRUE /\ resExists' = TRUE
    /\ Logged("pipeline_error", cur)
    /\ Step(cur, "failed")
    /\ pc' = "walk"
    /\ UNCHANGED <<srcFiles, stack, cur, pdf_files, jsonl_files, todo, destDirs, destFiles, conv>>

\* lines 33-40: the external process writes its results into RESULTS_DIR
\* (making the directory if it is missing, never removing it) and exits with 0
run_ocr_pipeline_ok ==
    /\ pc = "run_ocr_pipeline"
    /\ \E out \in PipelineOutputs(cur) : results' = out @@ results
    /\ wsExists' = TRUE /\ resExists' = TRUE
    /\ Logged("pipeline_ok", cur)
    /\ Step(cur, "succeeded")
    /\ pc' = "convert"
    /\ UNCHANGED <<srcFiles, stack, cur, pdf_files, jsonl_files, todo, destDirs, destFiles, conv>>

-----------------------------------------------------------------------------
(* process_directory lines 108-114 and convert_jsonl_to_markdown *)

\* the *.jsonl files of RESULTS_DIR (line 48)
JsonlFiles == IF resExists THEN GlobStar(DOMAIN results, EXT_jsonl) ELSE {}

\* lines 108-111 and 47-52: the destination directory is made, and RESULTS_DIR
\* holds no *.jsonl file
convert_no_jsonl ==
    /\ pc = "convert"
    /\ destDirs' = MakeDirs(destDirs, cur)
    /\ JsonlFiles = {}
    /\ jsonl_files' = <<>>
    /\ todo' = <<>>
    /\ Logged("no_jsonl", cur)
    /\ Step(cur, "converting")
    /\ pc' = "purge"
    /\ UNCHANGED <<srcFiles, stack, cur, pdf_files, wsExists, resExists, results,
                   destFiles, conv>>

\* lines 108-111 and 47-54: the destination directory is made, and the
\* *.jsonl files are taken in the order glob returns them
convert_open ==
    /\ pc = "convert"
    /\ destDirs' = MakeDirs(destDirs, cur)
    /\ JsonlFiles # {}
    /\ \E order \in Orders(JsonlFiles) :
           /\ jsonl_files' = order
           /\ todo' = ReadingOrder(results, order)
    /\ Step(cur, "converting")
    /\ pc' = "convert_lines"
    /\ UNCHANGED <<srcFiles, stack, cur, pdf_files, wsExists, resExists, results,
                   destFiles, log, conv>>

\* lines 58-59: a line that strip() empties is passed over
convert_blank ==
    /\ pc = "convert_lines" /\ todo # <<>>
    /\ Head(todo).line.raw = "blank"
    /\ todo' = Tail(todo)
    /\ UNCHANGED <<srcFiles, stack, pc, cur, pdf_files, wsExists, resExists, results, jsonl_files,
                   destDirs, destFiles, log, steps, conv>>

\* lines 60-64 without the try: JSONDecodeError ends the program
convert_decode_error_raise ==
    /\ pc = "convert_lines" /\ todo # <<>>
    /\ Head(todo).line.raw = "garbage"
    /\ pc' = "crashed"
    /\ UNCHANGED <<srcFiles, stack, cur, pdf_files, wsExists, resExists, results,
                   jsonl_files, todo, destDirs, destFiles, log, steps, conv>>

\* lines 60-64: json.loads raises JSONDecodeError; it is printed and the
\* loop goes on
convert_decode_error ==
    /\ pc = "convert_lines" /\ todo # <<>>
    /\ Head(todo).line.raw = "garbage"
    /\ todo' = Tail(todo)
    /\ Logged("decode_error", cur)
    /\ UNCHANGED <<srcFiles, stack, pc, cur, pdf_files, wsExists, resExists, results, jsonl_files,
                   destDirs, destFiles, steps, conv>>

\* lines 61-79: the line parses and its Markdown file is written
convert_write ==
    /\ pc = "convert_lines" /\ todo # <<>>
    /\ Head(todo).line.raw = "json"
    /\ LET md == MarkdownOf(Head(todo).line.val)
       IN  /\ md.t = "md"
           /\ destFiles' = WriteFile(destFiles, cur, md.name, md.content)
           /\ conv' = Append(conv, [dir |-> cur, file |-> Head(todo).file,
                                    idx |-> Head(todo).idx, line |-> Head(todo).line,
                                    name |-> md.name, content |-> md.content])
    /\ todo' = Tail(todo)
    /\ Logged("created", cur)
    /\ UNCHANGED <<srcFiles, stack, pc, cur, pdf_files, wsExists, resExists, results, jsonl_files,
                   destDirs, steps>>

\* lines 61-75: the line parses, and lines 67-75 raise AttributeError or
\* TypeError on the parsed value; nothing catches it and the program ends
convert_raise ==
    /\ pc = "convert_lines" /\ todo # <<>>
    /\ Head(todo).line.raw = "json"
    /\ MarkdownOf(Head(todo).line.val).t = "raised"
    /\ pc' = "crashed"
    /\ UNCHANGED <<srcFiles, stack, cur, pdf_files, wsExists, resExists, results,
                   jsonl_files, todo, destDirs, destFiles, log, steps, conv>>

\* the last line of the last file has been read; convert returns
convert_end ==
    /\ pc = "convert_lines" /\ todo = <<>>
    /\ pc' = "purge"
    /\ UNCHANGED <<srcFiles, stack, cur, pdf_files, wsExists, resExists, results,
                   jsonl_files, todo, destDirs, destFiles, log, steps, conv>>

\* lines 118-121: RESULTS_DIR is removed and made again, if it exists
purge_results ==
    /\ pc = "purge"
    /\ IF resExists
       THEN /\ results' = EmptyDir
            /\ Logged("purged", cur)
            /\ Step(cur, "purged")
       ELSE UNCHANGED <<results, log, steps>>
    /\ pc' = "walk"
    /\ UNCHANGED <<srcFiles, stack, cur, pdf_files, wsExists, resExists,
                   jsonl_files, todo, destDirs, destFiles, conv>>

-----------------------------------------------------------------------------
(* The program *)

Next ==
    \/ main_skip
    \/ main_process
    \/ main_done
    \/ process_directory_skip
    \/ process_directory_found
    \/ clear_workspace
    \/ run_ocr_pipeline_fail
    \/ run_ocr_pipeline_ok
    \/ convert_no_jsonl
    \/ convert_open
    \/ convert_blank
    \/ convert_decode_error
    \/ convert_write
    \/ convert_raise
    \/ convert_end
    \/ purge_results

Spec == Init /\ [][Next]_vars

-----------------------------------------------------------------------------
(* The conversion on its own: convert_jsonl_to_markdown over every results  *)
(* directory of up to MaxLines lines                                       *)

\* the directory being converted: the last one of the walk
ConvertDir == <<"z">>

AnyLines == { BlankLine(ConvertDir), BadLine(ConvertDir) }
                \cup { JsonLine(v, ConvertDir) : v \in JsonValues }

\* RESULTS_DIR after the pipeline: up to MaxLines lines in two *.jsonl files
\* (the first k lines in one, the rest in the other), or no *.jsonl file at all
IsResultDir(res) ==
    \/ \E n \in 0..MaxLines : \E ls \in [1..n -> AnyLines] : \E k \in 0..n :
           res = (O1 :> SubSeq(ls, 1, k)) @@ (O2 :> SubSeq(ls, k + 1, n))
    \/ res = O_txt :> <<BadLine(ConvertDir)>>

\* main has skipped every directory of the chain, process_directory has reset
\* the workspace for ConvertDir, and the pipeline has just exited with 0
InitConvert ==
    /\ srcFiles = [d \in SourceTree |->
                      IF d = ConvertDir THEN {F_a_pdf, F_B_PDF, F_h_png, F_g_jpeg}
                      ELSE {F_n_txt}]
    /\ stack = <<>>
    /\ pc = "convert"
    /\ cur = ConvertDir
    /\ pdf_files = {F_a_pdf, F_g_jpeg}
    /\ wsExists = TRUE /\ resExists = TRUE
    /\ IsResultDir(results)
    /\ jsonl_files = <<>>
    /\ todo = <<>>
    /\ destDirs = {}
    /\ destFiles = [d \in SourceTree |-> EmptyDir]
    /\ log = [i \in 1..(MaxDepth + 1) |-> [ev |-> "main_skip", dir |-> [j \in 1..(i-1) |-> "s"]]]
                \o << [ev |-> "processing", dir |-> ConvertDir],
                      [ev |-> "cleared", dir |-> ConvertDir],
                      [ev |-> "pipeline_ok", dir |-> ConvertDir] >>
    /\ steps = [d \in SourceTree |->
                   IF d = ConvertDir THEN <<"called", "discovered", "reset", "succeeded">>
                   ELSE <<>>]
    /\ conv = <<>>

NextConvert ==
    \/ convert_no_jsonl
    \/ convert_open
    \/ convert_blank
    \/ convert_decode_error
    \/ convert_write
    \/ convert_raise
    \/ convert_end
    \/ purge_results
    \/ main_done

SpecConvert == InitConvert /\ [][NextConvert]_vars

-----------------------------------------------------------------------------
(* Reading the histories *)

Range(q) == { q[i] : i \in DOMAIN q }
Last(q) == q[Len(q)]
IsPrefix(a, b) == Len(a) <= Len(b) /\ SubSeq(b, 1, Len(a)) = a
ProperlyBelow(c, d) == Len(d) < Len(c) /\ SubSeq(c, 1, Len(d)) = d

\* os.walk has yielded d: neither d nor a directory above it is still to come
Yielded(d) == \A k \in DOMAIN stack : stack[k] \notin Prefixes(d)
\* main called process_directory(d)
Handed(d) == steps[d] # <<>>
\* what process_directory(d) did, in order
Path(d) == Tail(steps[d])
\* process_directory(d) has returned
Returned(d) == Handed(d) /\ (cur # d \/ pc \in {"walk", "done"})
\* the pipeline run for d exited non-zero
Failed(d) == "failed" \in Range(steps[d])
Converted(d) == "converting" \in Range(steps[d])
CountLog(ev, d) == Cardinality({ i \in DOMAIN log : log[i] = [ev |-> ev, dir |-> d] })
Noticed(ev, d) == CountLog(ev, d) > 0
AllVisitedAndEnded ==
    \A e \in SourceTree :
        /\ Yielded(e)
        /\ Handed(e) => Last(steps[e]) \in {"discovered_none", "failed", "purged"}

\* the extension test of the data model: one of pdf, png, jpg, jpeg, any case
NoEligibleFile(d) ==
    \A f \in srcFiles[d] : \A e \in Extensions : ~ EndsWith(Lower(f), e)
EligibleFiles(d) ==
    { f \in srcFiles[d] : \E e \in Extensions : EndsWith(Lower(f), e) }

\* the lines of the conversion under way, in reading order, and those read
AllLines == ReadingOrder(results, jsonl_files)
LinesRead == SubSeq(AllLines, 1, Len(AllLines) - Len(todo))
IsRaw(raw, e) == e.line.raw = raw
ParsedRead == SelectSeq(LinesRead, LAMBDA e : IsRaw("json", e))
CountRead(raw) == Cardinality({ i \in DOMAIN LinesRead : IsRaw(raw, LinesRead[i]) })
ConvOf(d) == SelectSeq(conv, LAMBDA c : c.dir = d)
Converting == pc \in {"convert_lines", "crashed", "purge"}

-----------------------------------------------------------------------------
(* C1 *)

\* C1: whenever run_ocr_pipeline is about to be invoked for a directory,
\* WORKSPACE_DIR and RESULTS_DIR exist and RESULTS_DIR is empty, whatever
\* earlier directories left behind.
C1_CleanWorkspaceAtPipeline ==
    pc = "run_ocr_pipeline" => wsExists /\ resExists /\ DOMAIN results = {}

\* the pipeline is about to run after an earlier directory failed and another
\* one was converted
C1_Witness ==
    /\ pc = "run_ocr_pipeline"
    /\ \E d \in SourceTree \ {cur} : Failed(d)
    /\ \E d \in SourceTree \ {cur} : Converted(d)

-----------------------------------------------------------------------------
(* C2 *)

\* C2 as stated: at the end of the run, the destination directory of every
\* directory whose pipeline run failed has not been created and holds no
\* Markdown file, and every directory of the walk was processed to its end.
C2_Original ==
    pc = "done" =>
        \A d \in SourceTree :
            Failed(d) => /\ d \notin destDirs
                         /\ DOMAIN destFiles[d] = {}
                         /\ AllVisitedAndEnded

\* C2 amended: a directory whose pipeline run failed gets no Markdown file,
\* and its destination directory exists only as a parent made when a
\* directory below it was converted; process_directory returns to the walk at
\* once, and at the end of the run every directory was visited and ended in
\* one of its final states.
C2_FailureIsolation ==
    \A d \in SourceTree :
        Failed(d) =>
            /\ DOMAIN destFiles[d] = {}
            /\ d \in destDirs => \E c \in SourceTree : ProperlyBelow(c, d) /\ Converted(c)
            /\ cur = d => pc \in {"walk", "done"}
            /\ pc = "done" => AllVisitedAndEnded

\* the run has ended, a failed directory's destination exists because a
\* directory below it was converted after the failure
C2_Witness ==
    /\ pc = "done"
    /\ \E d \in SourceTree :
          /\ Failed(d)
          /\ d \in destDirs
          /\ \E c \in SourceTree : ProperlyBelow(c, d) /\ "purged" \in Range(steps[c])

-----------------------------------------------------------------------------
(* C3 *)

\* C3 as stated: a visited directory with no eligible file is never reset
\* for, never run, logged as skipped, and its destination directory does not
\* exist.
C3_Original ==
    \A d \in SourceTree :
        Yielded(d) /\ NoEligibleFile(d) =>
            /\ Range(steps[d]) \cap {"reset", "failed", "succeeded"} = {}
            /\ Noticed("main_skip", d) \/ Noticed("no_files_skip", d)
            /\ d \notin destDirs

\* C3 amended: a visited directory with no eligible file is never reset for,
\* never run, logged as skipped and gets no Markdown file; its destination
\* directory exists only as a parent made when a directory below it was
\* converted.
C3_EmptyDirectorySkip ==
    \A d \in SourceTree :
        Yielded(d) /\ NoEligibleFile(d) =>
            /\ Range(steps[d]) \cap {"reset", "failed", "succeeded"} = {}
            /\ Noticed("main_skip", d) \/ Noticed("no_files_skip", d)
            /\ DOMAIN destFiles[d] = {}
            /\ d \in destDirs => \E c \in SourceTree : ProperlyBelow(c, d) /\ Converted(c)

\* a skipped directory in the middle of the tree whose destination exists
C3_Witness ==
    \E d \in SourceTree :
        /\ d # <<>>
        /\ Yielded(d) /\ NoEligibleFile(d)
        /\ Noticed("main_skip", d)
        /\ d \in destDirs

-----------------------------------------------------------------------------
(* C4 *)

\* C4: the list handed to the pipeline is exactly the files of the directory
\* whose extension is pdf, png, jpg or jpeg in any case, and a directory that
\* main's test lets through is never found empty by process_directory.
C4_CaseInsensitiveListing ==
    /\ pc = "run_ocr_pipeline" => pdf_files = EligibleFiles(cur)
    /\ \A d \in SourceTree : Handed(d) => "discovered_none" \notin Range(steps[d])

-----------------------------------------------------------------------------
(* C5 *)

\* C5: while and after the lines are read, every unparsable line read so far
\* was logged exactly once, blank lines were logged nowhere, every parsed
\* line read so far was written, the program never ends on a blank or
\* unparsable line, and a conversion that returns has read every line.
C5_MalformedLineResilience ==
    Converting =>
        /\ CountLog("decode_error", cur) = CountRead("garbage")
        /\ CountLog("created", cur) = Len(ParsedRead)
        /\ CountLog("decode_error", cur) + CountLog("created", cur)
               + CountLog("no_jsonl", cur) + CountLog("processing", cur)
               + CountLog("cleared", cur) + CountLog("pipeline_ok", cur)
             = Cardinality({ i \in DOMAIN log : log[i].dir = cur })
        /\ Len(ConvOf(cur)) = Len(ParsedRead)
        /\ \A i \in DOMAIN ParsedRead :
              /\ ConvOf(cur)[i].file = ParsedRead[i].file
              /\ ConvOf(cur)[i].idx = ParsedRead[i].idx
        /\ pc = "crashed" => Head(todo).line.raw = "json"
        /\ pc = "purge" => todo = <<>>

\* the conversion returned after an unparsable first line and a record after
\* it: one decode error, one Markdown file
C5_Witness ==
    /\ pc = "purge"
    /\ Len(AllLines) = 2
    /\ AllLines[1].line.raw = "garbage"
    /\ AllLines[2].line.raw = "json"
    /\ CountLog("decode_error", cur) = 1
    /\ Cardinality(DOMAIN destFiles[cur]) = 1

-----------------------------------------------------------------------------
(* C6 *)

HasSourceFile(doc) ==
    /\ "metadata" \in DOMAIN doc.f
    /\ doc.f["metadata"].t = "obj"
    /\ "Source-File" \in DOMAIN doc.f["metadata"].f

ClaimedIdentifier(doc) ==
    IF HasSourceFile(doc) THEN doc.f["metadata"].f["Source-File"].s
    ELSE IF "id" \in DOMAIN doc.f THEN doc.f["id"].s
    ELSE STR_unknown

ClaimedText(doc) == IF "text" \in DOMAIN doc.f THEN doc.f["text"].s ELSE <<>>

\* C6: every Markdown file written is named after metadata["Source-File"] if
\* the record has it, else after id if it has it, else after "unknown": the
\* basename without its extension plus ".md"; its content is "# ", the
\* basename, two newlines and the text.  {"id":"doc1","text":"hi"} gives
\* doc1.md with "# doc1\n\nhi", and Source-File "/b/r.pdf" gives r.md with
\* header "# r.pdf" although the record has an id.
C6_FallbackChain ==
    \A i \in DOMAIN conv :
        LET doc == conv[i].line.val
            base == Basename(ClaimedIdentifier(doc))
        IN  /\ conv[i].name = SplitextRoot(base) \o STR_md
            /\ conv[i].content = <<"#", " ">> \o base \o <<"\n", "\n">> \o ClaimedText(doc)
            /\ conv[i].name \in DOMAIN destFiles[conv[i].dir]
            /\ doc = R_id =>
                  /\ conv[i].name = <<"d", "o", "c", "1", ".", "m", "d">>
                  /\ conv[i].content = <<"#", " ", "d", "o", "c", "1", "\n", "\n", "h", "i">>
            /\ doc = R_sf_id =>
                  /\ conv[i].name = <<"r", ".", "m", "d">>
                  /\ conv[i].content
                       = <<"#", " ", "r", ".", "p", "d", "f", "\n", "\n", "h", "i">>

\* a record with both metadata["Source-File"] and id was written, and so was
\* one with neither
C6_Witness ==
    /\ \E i \in DOMAIN conv : conv[i].line.val = R_sf_id
    /\ \E i \in DOMAIN conv : conv[i].line.val = R_empty

-----------------------------------------------------------------------------
(* C7 *)

\* C7: a destination directory holds exactly the names computed for the
\* records written into it, and each file holds the content of the last
\* record written under its name and nothing of the earlier ones.
C7_LastWriteWins ==
    \A d \in SourceTree :
        /\ DOMAIN destFiles[d] = { conv[i].name : i \in { j \in DOMAIN conv : conv[j].dir = d } }
        /\ \A n \in DOMAIN destFiles[d] :
              \E i \in DOMAIN conv :
                  /\ conv[i].dir = d /\ conv[i].name = n
                  /\ \A j \in DOMAIN conv : conv[j].dir = d /\ conv[j].name = n => j <= i
                  /\ destFiles[d][n] = conv[i].content

\* two records with different basenames-with-extension were written under
\* one name, and the file holds the second
C7_Witness ==
    \E i, j \in DOMAIN conv :
        /\ i < j
        /\ conv[i].name = conv[j].name
        /\ conv[i].content # conv[j].content
        /\ destFiles[cur][conv[j].name] = conv[j].content
        /\ Len(conv) = j

-----------------------------------------------------------------------------
(* C8 *)

ClaimedOrders ==
    { <<"reset", "discovered_none">>,
      <<"reset", "discovered", "failed">>,
      <<"reset", "discovered", "succeeded", "converting", "purged">> }

CodeOrders ==
    { <<"discovered_none">>,
      <<"discovered", "reset", "failed">>,
      <<"discovered", "reset", "succeeded", "converting", "purged">> }

-----------------------------------------------------------------------------
(* C9 *)

\* C9: every line that parses is written as a Markdown file, whatever value
\* it parses to, and the conversion never ends the program.
C9_EveryParsedLineWritten ==
    /\ pc # "crashed"
    /\ pc = "purge" =>
          Cardinality({ i \in DOMAIN AllLines : IsRaw("json", AllLines[i]) }) = Len(ConvOf(cur))

-----------------------------------------------------------------------------
(* C10 *)

\* C10: every Markdown write into the destination of directory D is of a
\* line the pipeline run for D wrote, no line is written twice, and every
\* file in D's destination comes from such a write.
C10_NoCrossUnitLeakage ==
    /\ \A i \in DOMAIN conv : conv[i].line.origin = conv[i].dir
    /\ \A i, j \in DOMAIN conv :
          /\ conv[i].line.origin = conv[j].line.origin
          /\ conv[i].file = conv[j].file
          /\ conv[i].idx = conv[j].idx
          => i = j
    /\ \A d \in SourceTree : \A n \in DOMAIN destFiles[d] :
          \E i \in DOMAIN conv :
              conv[i].dir = d /\ conv[i].name = n /\ conv[i].line.origin = d

\* a line was written for a directory after the pipeline run for an earlier
\* directory had failed
C10_Witness ==
    \E i, j \in DOMAIN log :
        /\ i < j
        /\ log[i].ev = "pipeline_error"
        /\ log[j].ev = "created"
        /\ log[i].dir # log[j].dir

=============================================================================
